---- MODULE Spec2Model ----
(***************************************************************************)
(* Byteshare server (src/server.js): an Express process in front of one    *)
(* MongoDB database.  The `transfers` collection holds one document per    *)
(* transfer, keyed by a 6-character short code; uploaded files live in the *)
(* GridFS bucket `uploads`; a TTL index on `createdAt` removes documents.  *)
(*                                                                         *)
(* Every callback of the event loop is one action: the three request       *)
(* handlers, the stream and promise callbacks they register, the startup   *)
(* promise chain, and the database's TTL monitor.                          *)
(***************************************************************************)
EXTENDS Integers, Sequences, FiniteSets, TLC

VARIABLES
    proc,          \* "running" | "exited"            (process.exit, line 74)
    connectState,  \* "pending" | "resolved" | "rejected"   (line 42)
    db,            \* NULL | <<dbName>>               (line 39)
    gridfsBucket,  \* NULL | <<bucketName>>           (line 40)
    ttlIndex,      \* "none" | "requested" | "created" | "failed"  (lines 57-67)
    now,           \* wall clock, in seconds
    transfers,     \* documents of the `transfers` collection
    fsFiles,       \* documents of uploads.files  (finished GridFS files)
    fsChunks,      \* documents of uploads.chunks (bytes written, by files_id)
    nextObjectId,  \* ObjectIds handed out so far
    uploads,       \* POST /api/upload requests, by request number
    client         \* the GET request in progress or last answered

vars == <<proc, connectState, db, gridfsBucket, ttlIndex, now, transfers,
          fsFiles, fsChunks, nextObjectId, uploads, client>>

storeVars == <<transfers, fsFiles, fsChunks, nextObjectId>>
bootVars  == <<proc, connectState, db, gridfsBucket, ttlIndex>>

-----------------------------------------------------------------------------
(* Bounds of the model *)

\* number of POST /api/upload requests when no GET request is made
NumUploads == 2
\* number of POST /api/upload requests beside the GET requests
NumReadUploads == 1
\* number of distinct values crypto.randomBytes(3) is drawn from
NumCodes == 2
\* number of clock advances
MaxTicks == 2

-----------------------------------------------------------------------------
(* Values *)

\* JavaScript null / undefined; a present value x is held as <<x>>
NULL == <<>>
Some(x) == <<x>>

dbName == "quick_share_db"
collectionName == "transfers"
bucketName == "uploads"

\* 12 * 60 * 60 seconds
expirySeconds == 12 * 60 * 60

\* the clock advances in steps of six hours
TickSeconds == 6 * 60 * 60

HexDigits == <<"0","1","2","3","4","5","6","7","8","9","a","b","c","d","e","f">>
UpperHexDigits == <<"0","1","2","3","4","5","6","7","8","9","A","B","C","D","E","F">>

\* String.prototype.toUpperCase on one character of the model's alphabet
UpperChar(c) ==
    CASE c = "a" -> "A" [] c = "b" -> "B" [] c = "c" -> "C"
      [] c = "d" -> "D" [] c = "e" -> "E" [] c = "f" -> "F"
      [] c = "z" -> "Z"
      [] OTHER -> c

\* String.prototype.toUpperCase on a string held as a sequence of characters
toUpperCase(s) == [i \in 1..Len(s) |-> UpperChar(s[i])]

\* Buffer.toString('hex'): two lowercase hex digits per byte
toHex(bytes) ==
    [i \in 1..(2 * Len(bytes)) |->
        LET b == bytes[(i + 1) \div 2]
        IN  IF i % 2 = 1 THEN HexDigits[(b \div 16) + 1]
                         ELSE HexDigits[(b % 16) + 1]]

\* the three bytes of a 24-bit value, most significant first
Bytes3(n) == <<(n \div 65536) % 256, (n \div 256) % 256, n % 256>>

\* values crypto.randomBytes(3) returns in the model: 0xABCDEF, 0xABCDF0, ...
RandomBytes == { Bytes3((171 * 65536 + 205 * 256 + 239 + k) % 16777216) : k \in 0..(NumCodes - 1) }

\* as generateShortCode, without the toUpperCase() of line 26
generateShortCodeLower(bytes) == toHex(bytes)

\* generateShortCode, given the random bytes drawn
generateShortCode(bytes) == toUpperCase(toHex(bytes))

ShortCodes == { generateShortCode(b) : b \in RandomBytes }

\* an ObjectId (12 bytes) is held as the number n it encodes;
\* ObjectId.toString() is its lowercase hexadecimal form, two digits per byte
ObjectIdHexLen == 2 * 12

RECURSIVE HexOf(_, _)
HexOf(n, len) ==
    IF len = 0 THEN <<>>
    ELSE Append(HexOf(n \div 16, len - 1), HexDigits[(n % 16) + 1])

ObjectIdToString(n) == HexOf(n, ObjectIdHexLen)

HexValue(c) ==
    IF \E i \in 1..16 : HexDigits[i] = c
    THEN (CHOOSE i \in 1..16 : HexDigits[i] = c) - 1
    ELSE IF \E i \in 1..16 : UpperHexDigits[i] = c
    THEN (CHOOSE i \in 1..16 : UpperHexDigits[i] = c) - 1
    ELSE -1

RECURSIVE HexParse(_)
HexParse(s) ==
    IF s = <<>> THEN 0
    ELSE 16 * HexParse(SubSeq(s, 1, Len(s) - 1)) + HexValue(s[Len(s)])

\* new ObjectId(string): NULL stands for the BSONError it throws
NewObjectId(s) ==
    IF Len(s) = ObjectIdHexLen /\ \A i \in 1..Len(s) : HexValue(s[i]) >= 0
    THEN Some(HexParse(s))
    ELSE NULL

\* req.file as multer builds it: originalname, mimetype, buffer
FileA == [originalname |-> "a.txt", mimetype |-> "text/plain", buffer |-> <<119, 111>>]
FileB == [originalname |-> "b.png", mimetype |-> "image/png", buffer |-> <<137>>]
FileE == [originalname |-> "e.log", mimetype |-> "text/x-log", buffer |-> <<>>]

\* the multipart bodies posted: nothing at all, text only (empty or not), a
\* file with an empty text field, a file with text, an empty file
UploadBodies ==
    { [text |-> NULL,          file |-> NULL],
      [text |-> Some(""),      file |-> NULL],
      [text |-> Some("hello"), file |-> NULL],
      [text |-> Some(""),      file |-> Some(FileB)],
      [text |-> Some("hello"), file |-> Some(FileA)],
      [text |-> NULL,          file |-> Some(FileE)] }

-----------------------------------------------------------------------------
(* Initial state: the module has been loaded, MongoClient.connect is pending *)

IdleUpload ==
    [pc |-> "idle", text |-> NULL, file |-> NULL, textData |-> "",
     shortCode |-> NULL, uploadId |-> NULL, doc |-> NULL, err |-> NULL,
     res |-> NULL]

\* res.status(status).send(text) and res.json(obj)
Send(status, text) == [status |-> status, send |-> Some(text), json |-> NULL]
Json(obj) == [status |-> 200, send |-> NULL, json |-> Some(obj)]

\* a GET request: the route matched, the :id or :file_id parameter, where its
\* handling stands, and what has been done to its response object
IdleClient ==
    [kind |-> "none", param |-> <<>>, pc |-> "done", fileId |-> NULL,
     headers |-> NULL, headersSent |-> FALSE, sent |-> <<>>, ended |-> FALSE,
     res |-> NULL, threw |-> NULL]

Init ==
    /\ proc = "running"
    /\ connectState = "pending"
    /\ db = NULL
    /\ gridfsBucket = NULL
    /\ ttlIndex = "none"
    /\ now = 0
    /\ transfers = {}
    /\ fsFiles = {}
    /\ fsChunks = {}
    /\ nextObjectId = 0
    /\ uploads = [r \in 1..NumUploads |-> IdleUpload]
    /\ client = IdleClient

-----------------------------------------------------------------------------
(* Startup: lines 42-75 *)

\* .then(client => ...): both handles are set in one callback, then the TTL
\* index is requested
ConnectResolved ==
    /\ proc = "running"
    /\ connectState = "pending"
    /\ connectState' = "resolved"
    /\ db' = Some(dbName)
    /\ gridfsBucket' = Some(bucketName)
    /\ ttlIndex' = "requested"
    /\ UNCHANGED <<proc, now, storeVars, uploads, client>>

\* as ConnectRejected, with the failure logged and the process kept running
ConnectRejectedLogged ==
    /\ proc = "running"
    /\ connectState = "pending"
    /\ connectState' = "rejected"
    /\ UNCHANGED <<proc, db, gridfsBucket, ttlIndex, now, storeVars, uploads, client>>

\* .catch(err => ...): process.exit(1)
ConnectRejected ==
    /\ proc = "running"
    /\ connectState = "pending"
    /\ connectState' = "rejected"
    /\ proc' = "exited"
    /\ UNCHANGED <<db, gridfsBucket, ttlIndex, now, storeVars, uploads, client>>

\* the database builds the TTL index; createIndex(...).then logs it
CreateIndexResolved ==
    /\ ttlIndex = "requested"
    /\ ttlIndex' = "created"
    /\ UNCHANGED <<proc, connectState, db, gridfsBucket, now, storeVars, uploads, client>>

\* the database refuses the index (one on createdAt with another
\* expireAfterSeconds exists, say); createIndex(...).catch logs it and the
\* server keeps serving
CreateIndexRejected ==
    /\ ttlIndex = "requested"
    /\ ttlIndex' = "failed"
    /\ UNCHANGED <<proc, connectState, db, gridfsBucket, now, storeVars, uploads, client>>

-----------------------------------------------------------------------------
(* The database's clock and TTL monitor *)

Tick ==
    /\ now < MaxTicks * TickSeconds
    /\ now' = now + TickSeconds
    /\ UNCHANGED <<bootVars, storeVars, uploads, client>>

\* a document is expired once expireAfterSeconds have passed since createdAt
Expired(d, t) == t - d.createdAt >= expirySeconds

\* one pass of the TTL monitor over the index of lines 57-60
TTLMonitor ==
    /\ ttlIndex = "created"
    /\ \E d \in transfers : Expired(d, now)
    /\ transfers' = { d \in transfers : ~Expired(d, now) }
    /\ UNCHANGED <<bootVars, now, fsFiles, fsChunks, nextObjectId, uploads, client>>

-----------------------------------------------------------------------------
(* POST /api/upload: lines 83-135 *)

\* as TextData, with a placeholder for a missing or empty text
TextDataPlaceholder(text) == IF text = NULL \/ text[1] = "" THEN "No text" ELSE text[1]

\* req.body.text || ''
TextData(text) == IF text = NULL \/ text[1] = "" THEN "" ELSE text[1]

\* the document saveMetadata(file_id) hands to insertOne at time t, for the
\* request u numbered r; `by` is not a field of the stored document: it names
\* the request that inserted it
MetadataDoc(u, r, file_id, t) ==
    [_id       |-> u.shortCode[1],
     text      |-> u.textData,
     file_id   |-> file_id,
     filename  |-> IF u.file # NULL THEN Some(u.file[1].originalname) ELSE NULL,
     createdAt |-> t,
     by        |-> r]

\* as Piped, with saveMetadata(uploadStream.id) called without waiting for 'finish'
PipedUnawaited(u, r) ==
    [u EXCEPT !.pc = "inserting", !.uploadId = Some(nextObjectId + 1),
              !.doc = Some(MetadataDoc(u, r, Some(nextObjectId + 1), now))]

\* the request after readableFileStream.pipe(uploadStream) (lines 113-125):
\* the driver has made the file's ObjectId, and saveMetadata waits for 'finish'
Piped(u, r) ==
    [u EXCEPT !.pc = "uploading", !.uploadId = Some(nextObjectId + 1)]

\* the handler of line 83, for request r with the multipart fields text and
\* file, and `bytes` the value crypto.randomBytes(3) returns
UploadRequest(r, text, file, bytes) ==
    /\ proc = "running"
    /\ uploads[r].pc = "idle"
    /\ r > 1 => uploads[r - 1].pc # "idle"
    /\ IF db = NULL
       THEN /\ uploads' = [uploads EXCEPT ![r] =
                     [@ EXCEPT !.pc = "done",
                               !.res = Some(Send(500, "Database not connected"))]]
            /\ UNCHANGED nextObjectId
       ELSE LET u == [uploads[r] EXCEPT
                         !.text = text, !.file = file,
                         !.textData = TextData(text),
                         !.shortCode = Some(generateShortCode(bytes))]
            IN  IF file # NULL
                THEN \* openUploadStream: the driver makes the file's ObjectId
                     /\ nextObjectId' = nextObjectId + 1
                     /\ uploads' = [uploads EXCEPT ![r] = Piped(u, r)]
                ELSE \* saveMetadata()
                     /\ uploads' = [uploads EXCEPT ![r] =
                            [u EXCEPT !.pc = "inserting",
                                      !.doc = Some(MetadataDoc(u, r, NULL, now))]]
                     /\ UNCHANGED nextObjectId
    /\ UNCHANGED <<bootVars, now, transfers, fsFiles, fsChunks, client>>

\* the documents GridFS writes for a finished upload of request u
FilesDoc(u) ==
    [_id         |-> u.uploadId[1],
     filename    |-> u.file[1].originalname,
     contentType |-> u.file[1].mimetype,
     length      |-> Len(u.file[1].buffer)]

\* the chunks written when `data` has reached GridFS: none when it is empty
ChunksDocs(u, data) ==
    IF data = <<>> THEN {} ELSE {[files_id |-> u.uploadId[1], data |-> data]}

\* uploadStream 'finish' (lines 123-125): every chunk and the files document
\* are written, then saveMetadata(uploadStream.id) runs
UploadFinish(r) ==
    /\ proc = "running"
    /\ uploads[r].pc = "uploading"
    /\ fsChunks' = fsChunks \cup ChunksDocs(uploads[r], uploads[r].file[1].buffer)
    /\ fsFiles' = fsFiles \cup {FilesDoc(uploads[r])}
    /\ uploads' = [uploads EXCEPT ![r] =
           [@ EXCEPT !.pc = "inserting",
                     !.doc = Some(MetadataDoc(uploads[r], r, uploads[r].uploadId, now))]]
    /\ UNCHANGED <<bootVars, now, transfers, nextObjectId, client>>

\* as UploadError, with the 'error' handler going on to saveMetadata
UploadErrorThenSave(r) ==
    /\ proc = "running"
    /\ uploads[r].pc = "uploading"
    /\ uploads' = [uploads EXCEPT ![r] =
           [@ EXCEPT !.pc = "inserting",
                     !.err = Some("UploadStreamError"),
                     !.res = Some(Send(500, "Failed to upload file to storage.")),
                     !.doc = Some(MetadataDoc(uploads[r], r, uploads[r].uploadId, now))]]
    /\ UNCHANGED <<bootVars, now, storeVars, client>>

\* as UploadError, with the files document written before the failure
UploadErrorKeepsFile(r) ==
    /\ proc = "running"
    /\ uploads[r].pc = "uploading"
    /\ \E n \in 0..Len(uploads[r].file[1].buffer) :
          fsChunks' = fsChunks \cup
                ChunksDocs(uploads[r], SubSeq(uploads[r].file[1].buffer, 1, n))
    /\ fsFiles' = fsFiles \cup {FilesDoc(uploads[r])}
    /\ uploads' = [uploads EXCEPT ![r] =
           [@ EXCEPT !.pc = "done",
                     !.err = Some("UploadStreamError"),
                     !.res = Some(Send(500, "Failed to upload file to storage."))]]
    /\ UNCHANGED <<bootVars, now, transfers, nextObjectId, client>>

\* uploadStream 'error' (lines 127-130): the write failed after the first n
\* bytes reached uploads.chunks; the files document, which GridFS writes
\* last, is not written
UploadError(r) ==
    /\ proc = "running"
    /\ uploads[r].pc = "uploading"
    /\ \E n \in 0..Len(uploads[r].file[1].buffer) :
          fsChunks' = fsChunks \cup
                ChunksDocs(uploads[r], SubSeq(uploads[r].file[1].buffer, 1, n))
    /\ uploads' = [uploads EXCEPT ![r] =
           [@ EXCEPT !.pc = "done",
                     !.err = Some("UploadStreamError"),
                     !.res = Some(Send(500, "Failed to upload file to storage."))]]
    /\ UNCHANGED <<bootVars, now, transfers, fsFiles, nextObjectId, client>>

\* as InsertAccepted, with the code kept in a field that has no unique index
InsertAcceptedAlways(doc, coll) == TRUE

\* the unique index on _id: insertOne is accepted when no document of the
\* collection has the document's _id
InsertAccepted(doc, coll) == \A d \in coll : d._id # doc._id

\* insertOne commits (line 92); the reply has yet to reach the process
InsertCommit(r) ==
    /\ proc = "running"
    /\ uploads[r].pc = "inserting"
    /\ InsertAccepted(uploads[r].doc[1], transfers)
    /\ transfers' = transfers \cup {uploads[r].doc[1]}
    /\ uploads' = [uploads EXCEPT ![r] = [@ EXCEPT !.pc = "inserted"]]
    /\ UNCHANGED <<bootVars, now, fsFiles, fsChunks, nextObjectId, client>>

\* as InsertThen, with the code sent as soon as insertOne has been called
InsertThenUnawaited(r) ==
    /\ proc = "running"
    /\ uploads[r].pc = "inserting"
    /\ uploads[r].res = NULL
    /\ uploads' = [uploads EXCEPT ![r] =
           [@ EXCEPT !.res = Some(Json([uniqueId |-> uploads[r].shortCode[1]]))]]
    /\ UNCHANGED <<bootVars, now, storeVars, client>>

\* .then of line 101: the short code is sent
InsertThen(r) ==
    /\ proc = "running"
    /\ uploads[r].pc = "inserted"
    /\ uploads' = [uploads EXCEPT ![r] =
           [@ EXCEPT !.pc = "done",
                     !.res = Some(Json([uniqueId |-> uploads[r].shortCode[1]]))]]
    /\ UNCHANGED <<bootVars, now, storeVars, client>>

\* insertOne fails, with a duplicate key error when the _id is taken and with
\* another write error of the database otherwise; nothing is written, and the
\* .catch of line 105 answers
InsertCatch(r) ==
    /\ proc = "running"
    /\ uploads[r].pc = "inserting"
    /\ uploads' = [uploads EXCEPT ![r] =
           [@ EXCEPT !.pc = "done",
                     !.err = IF InsertAccepted(uploads[r].doc[1], transfers)
                             THEN Some("WriteError")
                             ELSE Some("DuplicateKey"),
                     !.res = Some(Send(500,
                        "Failed to save transfer metadata. Try uploading again."))]]
    /\ UNCHANGED <<bootVars, now, storeVars, client>>

-----------------------------------------------------------------------------
(* GET /api/retrieve/:id: lines 141-166 *)

\* findOne({ _id: id }) on a collection
FindOne(id, coll) ==
    IF \E d \in coll : d._id = id
    THEN Some(CHOOSE d \in coll : d._id = id)
    ELSE NULL

\* as RetrieveResponse, with an empty transfer returned for a missing document
RetrieveResponseEmpty(id, coll) ==
    LET doc == FindOne(toUpperCase(id), coll)
    IN  IF doc = NULL
        THEN Json([text |-> "", filename |-> NULL, file_id |-> NULL])
        ELSE Json([text     |-> doc[1].text,
                   filename |-> doc[1].filename,
                   file_id  |-> IF doc[1].file_id # NULL
                                THEN Some(ObjectIdToString(doc[1].file_id[1]))
                                ELSE NULL])

\* lines 146-160: the response to :id, given the collection
RetrieveResponse(id, coll) ==
    LET uniqueId == toUpperCase(id)
        doc == FindOne(uniqueId, coll)
    IN  IF doc = NULL
        THEN Send(404, "Error: Transfer ID not found.")
        ELSE Json([text     |-> doc[1].text,
                   filename |-> doc[1].filename,
                   file_id  |-> IF doc[1].file_id # NULL
                                THEN Some(ObjectIdToString(doc[1].file_id[1]))
                                ELSE NULL])

\* a code with its letters in alternating case
MixedCase(s) == [i \in 1..Len(s) |-> IF i % 2 = 1 THEN UpperChar(s[i]) ELSE s[i]]

\* the :id parameters requested: each code as issued, in lowercase, in mixed
\* case, and a code that is never issued
RetrieveParams ==
    ShortCodes \cup { toHex(b) : b \in RandomBytes }
               \cup { MixedCase(toHex(b)) : b \in RandomBytes }
               \cup {<<"0","0","0","0","0","0">>}

\* the responses the handler can give to :id: the guard of line 142, or the
\* response of lines 146-160, or the catch of lines 162-165 when findOne fails
RetrieveAnswers(id) ==
    IF db = NULL
    THEN {Send(500, "Database not connected")}
    ELSE {RetrieveResponse(id, transfers), Send(400, "Error retrieving data.")}

\* as Retrieve, with the document deleted once it has been read
RetrieveOnce(id) ==
    /\ proc = "running"
    /\ client.pc = "done"
    /\ \E answer \in RetrieveAnswers(id) :
          /\ client' = [IdleClient EXCEPT
                !.kind = "retrieve", !.param = id, !.res = Some(answer)]
          /\ transfers' = IF answer.status = 200
                          THEN { d \in transfers : d._id # toUpperCase(id) }
                          ELSE transfers
    /\ UNCHANGED <<bootVars, now, fsFiles, fsChunks, nextObjectId, uploads>>

Retrieve(id) ==
    /\ proc = "running"
    /\ client.pc = "done"
    /\ \E answer \in RetrieveAnswers(id) :
          client' = [IdleClient EXCEPT
                !.kind = "retrieve", !.param = id, !.res = Some(answer)]
    /\ UNCHANGED <<bootVars, now, storeVars, uploads>>

-----------------------------------------------------------------------------
(* GET /api/download/:file_id: lines 172-198 *)

\* line 185
ContentDisposition(filename) == "attachment; filename=\"" \o filename \o "\""

\* the :file_id parameters requested: the string of every ObjectId an upload
\* can have, and two strings that are no ObjectId: one too short, one of the
\* right length that is not hexadecimal
DownloadParams ==
    { ObjectIdToString(n) : n \in 1..NumUploads }
        \cup {<<"z","z">>, [i \in 1..ObjectIdHexLen |-> "z"]}

\* as DownloadRequest, with the stream opened on whatever the parameter holds
DownloadRequestUnvalidated(param) ==
    /\ proc = "running"
    /\ client.pc = "done"
    /\ LET c == [IdleClient EXCEPT !.kind = "download", !.param = param]
           fileId == NewObjectId(param)
       IN  client' =
             IF db = NULL
             THEN [c EXCEPT !.res = Some(Send(500, "Database not connected"))]
             ELSE [c EXCEPT !.pc = "open",
                            !.fileId = IF fileId = NULL THEN Some(0) ELSE fileId]
    /\ UNCHANGED <<bootVars, now, storeVars, uploads>>

\* lines 173-197, up to the return of the handler
DownloadRequest(param) ==
    /\ proc = "running"
    /\ client.pc = "done"
    /\ LET c == [IdleClient EXCEPT !.kind = "download", !.param = param]
           fileId == NewObjectId(param)
       IN  client' =
             IF db = NULL
             THEN [c EXCEPT !.res = Some(Send(500, "Database not connected"))]
             ELSE IF fileId = NULL \/ gridfsBucket = NULL
             THEN [c EXCEPT !.res = Some(Send(400, "Error: Invalid file ID format."))]
             ELSE [c EXCEPT !.pc = "open", !.fileId = fileId]
    /\ UNCHANGED <<bootVars, now, storeVars, uploads>>

\* as DownloadFile, with no handler registered for 'file'
DownloadFileNoHeaders ==
    /\ proc = "running"
    /\ client.pc = "open"
    /\ \E f \in fsFiles : f._id = client.fileId[1] /\ f.length > 0
    /\ client' = [client EXCEPT !.pc = "file"]
    /\ UNCHANGED <<bootVars, now, storeVars, uploads>>

\* downloadStream 'file' (lines 183-186): the files document was found, and
\* the driver emits 'file' before it reads the chunks of a file that has any
DownloadFile ==
    /\ proc = "running"
    /\ client.pc = "open"
    /\ \E f \in fsFiles :
          /\ f._id = client.fileId[1]
          /\ f.length > 0
          /\ client' = [client EXCEPT
                !.pc = "file",
                !.headers = Some([contentType |-> f.contentType,
                                  contentDisposition |-> ContentDisposition(f.filename)])]
    /\ UNCHANGED <<bootVars, now, storeVars, uploads>>

\* res.status(404).send(...) of line 192
NotFoundInStorage(c) ==
    IF c.headersSent
    THEN [c EXCEPT !.pc = "done", !.threw = Some("ERR_HTTP_HEADERS_SENT")]
    ELSE [c EXCEPT !.pc = "done", !.headersSent = TRUE, !.ended = TRUE,
                   !.res = Some(Send(404, "File not found in storage."))]

\* as DownloadMissing, with no handler registered for 'error' and the
\* response ended empty
DownloadMissingEmpty ==
    /\ proc = "running"
    /\ client.pc = "open"
    /\ \A f \in fsFiles : f._id # client.fileId[1]
    /\ client' = [client EXCEPT
          !.pc = "done", !.headersSent = TRUE, !.ended = TRUE,
          !.res = Some([status |-> 200, send |-> NULL, json |-> NULL])]
    /\ UNCHANGED <<bootVars, now, storeVars, uploads>>

\* downloadStream 'error' (lines 191-193) when no files document has the id
DownloadMissing ==
    /\ proc = "running"
    /\ client.pc = "open"
    /\ \A f \in fsFiles : f._id # client.fileId[1]
    /\ client' = NotFoundInStorage(client)
    /\ UNCHANGED <<bootVars, now, storeVars, uploads>>

\* the bytes GridFS holds for a file id
FileData(id) ==
    LET docs == { ch \in fsChunks : ch.files_id = id }
    IN  IF docs = {} THEN <<>> ELSE (CHOOSE ch \in docs : TRUE).data

\* downloadStream.pipe(res) (line 189): the next chunk is written to res
DownloadData ==
    /\ proc = "running"
    /\ client.pc \in {"file", "streaming"}
    /\ Len(client.sent) < Len(FileData(client.fileId[1]))
    /\ client' = [client EXCEPT
          !.pc = "streaming",
          !.headersSent = TRUE,
          !.sent = Append(@, FileData(client.fileId[1])[Len(@) + 1])]
    /\ UNCHANGED <<bootVars, now, storeVars, uploads>>

\* downloadStream 'end': pipe ends res
DownloadEnd ==
    /\ proc = "running"
    /\ client.pc \in {"file", "streaming"}
    /\ Len(client.sent) = Len(FileData(client.fileId[1]))
    /\ client' = [client EXCEPT
          !.pc = "done", !.headersSent = TRUE, !.ended = TRUE,
          !.res = Some([status |-> 200, send |-> NULL, json |-> NULL])]
    /\ UNCHANGED <<bootVars, now, storeVars, uploads>>

\* the files document was found with length 0: the driver ends the stream at
\* once, without a 'file' event, so the handler of lines 183-186 does not run
\* and pipe (line 189) ends res
DownloadEmpty ==
    /\ proc = "running"
    /\ client.pc = "open"
    /\ \E f \in fsFiles : f._id = client.fileId[1] /\ f.length = 0
    /\ client' = [client EXCEPT
          !.pc = "done", !.headersSent = TRUE, !.ended = TRUE,
          !.res = Some([status |-> 200, send |-> NULL, json |-> NULL])]
    /\ UNCHANGED <<bootVars, now, storeVars, uploads>>

\* downloadStream 'error' (lines 191-193) while the file is read: the handler
\* of line 192 runs; when it throws, nothing catches it and the process ends
DownloadError ==
    /\ proc = "running"
    /\ client.pc \in {"file", "streaming"}
    /\ client' = NotFoundInStorage(client)
    /\ proc' = IF client.headersSent THEN "exited" ELSE proc
    /\ UNCHANGED <<connectState, db, gridfsBucket, ttlIndex, now, storeVars, uploads>>

-----------------------------------------------------------------------------
(* Two workloads over the same actions: NumReadUploads uploads beside one    *)
(* GET client (Spec), and NumUploads concurrent uploads alone (SpecUploads). *)

Next ==
    \/ ConnectResolved
    \/ ConnectRejected
    \/ CreateIndexResolved
    \/ CreateIndexRejected
    \/ Tick
    \/ TTLMonitor
    \/ \E r \in 1..NumReadUploads, body \in UploadBodies, bytes \in RandomBytes :
          UploadRequest(r, body.text, body.file, bytes)
    \/ \E r \in 1..NumReadUploads : UploadFinish(r)
    \/ \E r \in 1..NumReadUploads : UploadError(r)
    \/ \E r \in 1..NumReadUploads : InsertCommit(r)
    \/ \E r \in 1..NumReadUploads : InsertThen(r)
    \/ \E r \in 1..NumReadUploads : InsertCatch(r)
    \/ \E id \in RetrieveParams : Retrieve(id)
    \/ \E param \in DownloadParams : DownloadRequest(param)
    \/ DownloadFile
    \/ DownloadMissing
    \/ DownloadData
    \/ DownloadEnd
    \/ DownloadEmpty
    \/ DownloadError

Spec == Init /\ [][Next]_vars

\* the TTL monitor runs every minute, and the database answers createIndex
FairSpec ==
    /\ Spec
    /\ WF_vars(TTLMonitor)
    /\ WF_vars(CreateIndexResolved \/ CreateIndexRejected)

NextUploads ==
    \/ ConnectResolved
    \/ ConnectRejected
    \/ CreateIndexResolved
    \/ CreateIndexRejected
    \/ Tick
    \/ TTLMonitor
    \/ \E r \in 1..NumUploads, body \in UploadBodies, bytes \in RandomBytes :
          UploadRequest(r, body.text, body.file, bytes)
    \/ \E r \in 1..NumUploads : UploadFinish(r)
    \/ \E r \in 1..NumUploads : UploadError(r)
    \/ \E r \in 1..NumUploads : InsertCommit(r)
    \/ \E r \in 1..NumUploads : InsertThen(r)
    \/ \E r \in 1..NumUploads : InsertCatch(r)

SpecUploads == Init /\ [][NextUploads]_vars

-----------------------------------------------------------------------------
(* Properties *)

Requests == 1..NumUploads

\* request r was answered with res.json({ uniqueId: shortCode }) (line 103)
Succeeded(r) ==
    /\ uploads[r].res # NULL
    /\ uploads[r].res[1].json # NULL

\* request r was answered with a 500
Failed(r) ==
    /\ uploads[r].res # NULL
    /\ uploads[r].res[1].status = 500

\* the document request r inserted is in the collection
Live(r) ==
    /\ uploads[r].doc # NULL
    /\ uploads[r].doc[1] \in transfers

\* C1: at most one live document exists per code, and no two requests answered
\* with the same code both have their document live, whatever the
\* interleaving of the uploads
C1_UniqueLiveCode ==
    /\ \A d1, d2 \in transfers : d1._id = d2._id => d1 = d2
    /\ \A r1, r2 \in Requests :
          (/\ r1 # r2
           /\ Succeeded(r1) /\ Succeeded(r2)
           /\ Live(r1) /\ Live(r2))
          => uploads[r1].res[1].json[1].uniqueId # uploads[r2].res[1].json[1].uniqueId

\* two uploads drew the same code while the first one's document was live: one
\* was answered with the code, the other was refused the key
C1_Witness ==
    \E r1, r2 \in Requests :
        /\ r1 # r2
        /\ Succeeded(r1) /\ Live(r1)
        /\ uploads[r2].err = Some("DuplicateKey")
        /\ uploads[r2].shortCode = uploads[r1].shortCode

\* C2: an upload whose insert was refused with a duplicate key is not answered
\* with an error (the service retries with a new code)
C2_CollisionNotSurfaced ==
    \A r \in Requests :
        uploads[r].err = Some("DuplicateKey") => ~Failed(r)

\* the blob of request r is complete in GridFS
BlobStored(r) ==
    /\ FilesDoc(uploads[r]) \in fsFiles
    /\ ChunksDocs(uploads[r], uploads[r].file[1].buffer) \subseteq fsChunks

\* C3: in every state, an upload that has been answered with its code has had
\* its document committed (the document is in the collection, or it has since
\* expired) and, when a file was posted, its blob completely written
C3_DisclosedAfterCommit ==
    \A r \in Requests :
        Succeeded(r) =>
            /\ uploads[r].doc # NULL
            /\ uploads[r].doc[1]._id = uploads[r].res[1].json[1].uniqueId
            /\ \/ uploads[r].doc[1] \in transfers
               \/ ttlIndex = "created" /\ Expired(uploads[r].doc[1], now)
            /\ uploads[r].file # NULL =>
                  /\ BlobStored(r)
                  /\ uploads[r].doc[1].file_id = uploads[r].uploadId

\* an upload with a file was answered with its code while another upload is
\* still waiting for its insert
C3_Witness ==
    \E r1, r2 \in Requests :
        /\ Succeeded(r1) /\ uploads[r1].file # NULL /\ Live(r1)
        /\ uploads[r2].pc = "inserting"

\* request r was answered with the storage error of line 129
UploadFailed(r) ==
    uploads[r].res = Some(Send(500, "Failed to upload file to storage."))

\* C4: an upload whose blob write failed is answered with the storage error
\* and never has a document in the collection
C4_FailedUploadInsertsNothing ==
    \A r \in Requests :
        uploads[r].err = Some("UploadStreamError")
        => /\ UploadFailed(r)
           /\ uploads[r].pc = "done"
           /\ \A d \in transfers : d.by # r

\* a blob write failed part-way while another upload's document is live
C4_Witness ==
    \E r1, r2 \in Requests :
        /\ UploadFailed(r1)
        /\ \E ch \in fsChunks : ch.files_id = uploads[r1].uploadId[1]
        /\ Succeeded(r2) /\ Live(r2)

\* C5: whatever upload, fetch, download and expiry steps were taken, every
\* live document with a file_id references a file that GridFS holds completely
C5_LiveRecordHasBlob ==
    \A d \in transfers :
        d.file_id # NULL =>
            \E f \in fsFiles :
                /\ f._id = d.file_id[1]
                /\ Len(FileData(f._id)) = f.length

\* time has passed, a document with a file is still live, and a download of
\* its file has ended
C5_Witness ==
    \E r \in Requests :
        /\ Live(r) /\ uploads[r].doc[1].file_id # NULL
        /\ uploads[r].doc[1].createdAt + expirySeconds > now
        /\ now > 0
        /\ client.kind = "download" /\ client.ended
        /\ client.fileId = uploads[r].uploadId

\* request r's insert committed
Inserted(r) ==
    /\ uploads[r].pc \in {"inserted", "done"}
    /\ uploads[r].doc # NULL
    /\ uploads[r].err = NULL

\* request r's document was inserted and has been removed since
Gone(r) == Inserted(r) /\ ~Live(r)

\* C6: a live document whose createdAt is older than the retention window is
\* eventually removed
C6_EventuallyExpired ==
    \A r \in Requests :
        (Live(r) /\ Expired(uploads[r].doc[1], now)) ~> ~Live(r)

\* this step answers a GET /api/retrieve/:id whose findOne did not fail
RetrieveStep ==
    /\ client' # client
    /\ client'.kind = "retrieve"
    /\ client'.res[1].status # 400

\* this step writes bytes of file id to a download response
DeliversBytes(id) ==
    /\ client'.kind = "download"
    /\ client'.fileId = id
    /\ Len(client'.sent) > Len(client.sent)

\* C7: once a transfer's document has expired, no fetch by its code is
\* answered from it and no download by its file id delivers its bytes
C7_GoneAfterExpiry ==
    [][\A r \in Requests :
          Gone(r) =>
            /\ (RetrieveStep /\ toUpperCase(client'.param) = uploads[r].shortCode[1]
                    /\ client'.res[1].status = 200)
                => \E d \in transfers : d._id = uploads[r].shortCode[1] /\ d.by # r
            /\ uploads[r].uploadId # NULL => ~DeliversBytes(uploads[r].uploadId)
      ]_vars

\* C8: a step changes the collection only by inserting the pending document
\* of an upload or by removing expired documents, never changes GridFS except
\* by adding to it, and a step of a GET request changes neither
C8_RecordsImmutable ==
    [][/\ \A d \in transfers \ transfers' :
             ttlIndex = "created" /\ Expired(d, now)
       /\ \A d \in transfers' \ transfers :
             \E r \in Requests :
                 uploads[r].pc = "inserting" /\ uploads[r].doc = Some(d)
       /\ fsFiles \subseteq fsFiles'
       /\ fsChunks \subseteq fsChunks'
       /\ client' # client =>
             /\ transfers' = transfers
             /\ fsFiles' = fsFiles
             /\ fsChunks' = fsChunks
      ]_vars

\* a download has delivered a whole file and the document naming it is live
C8_Witness ==
    /\ client.kind = "download"
    /\ client.ended
    /\ client.res = Some([status |-> 200, send |-> NULL, json |-> NULL])
    /\ \E r \in Requests : Live(r) /\ uploads[r].doc[1].file_id = client.fileId

\* C9: a fetch by the returned code of a live transfer made with a text and
\* no file is answered (when the database answers the lookup) with that text,
\* filename null and file_id null
C9_TextRoundTrip ==
    [][\A r \in Requests :
          (/\ Succeeded(r) /\ Live(r)
           /\ uploads[r].file = NULL
           /\ uploads[r].text # NULL
           /\ RetrieveStep
           /\ client'.param = uploads[r].res[1].json[1].uniqueId)
          => client'.res = Some(Json([text     |-> uploads[r].text[1],
                                      filename |-> NULL,
                                      file_id  |-> NULL]))
      ]_vars

\* a transfer made with an empty text and one made with "hello" have been
\* fetched by their code
C9_Witness ==
    \E r \in Requests :
        /\ Succeeded(r) /\ Live(r)
        /\ uploads[r].file = NULL
        /\ uploads[r].text = Some("")
        /\ client.kind = "retrieve"
        /\ client.param = uploads[r].res[1].json[1].uniqueId
        /\ client.res = Some(Json([text |-> "", filename |-> NULL, file_id |-> NULL]))

\* the headers a download of request r's file carries
FileHeaders(r) ==
    Some([contentType        |-> uploads[r].file[1].mimetype,
          contentDisposition |-> ContentDisposition(uploads[r].file[1].originalname)])

\* C10: for an upload with a file that was answered with its code, a fetch of
\* the live transfer gives the original filename and the file_id; a download
\* by that file_id finds the file, and when it ends it has delivered exactly
\* the uploaded bytes under the uploaded content type and filename
C10_FileRoundTrip ==
    [][\A r \in Requests :
          (Succeeded(r) /\ uploads[r].file # NULL) =>
            LET file_id == ObjectIdToString(uploads[r].uploadId[1]) IN
            /\ (Live(r) /\ RetrieveStep
                   /\ client'.param = uploads[r].res[1].json[1].uniqueId)
                => /\ client'.res[1].json # NULL
                   /\ client'.res[1].json[1].filename
                         = Some(uploads[r].file[1].originalname)
                   /\ client'.res[1].json[1].file_id = Some(file_id)
            /\ (client.kind = "download" /\ client.param = file_id
                   /\ client.pc = "open" /\ client' # client)
                => \/ client'.res = NULL
                   \/ client'.res[1].status = 200
            /\ (client.kind = "download" /\ client.param = file_id
                   /\ client.res = NULL /\ client'.res # NULL
                   /\ client'.res[1].status = 200)
                => /\ client'.sent = uploads[r].file[1].buffer
                   /\ client'.headers = FileHeaders(r)
      ]_vars

\* the code request r was answered with
CodeOf(r) == uploads[r].res[1].json[1].uniqueId

\* C11: every stored key is in uppercase, and a fetch that the database
\* answers gives, for the :id in any case, what the collection holds under
\* the uppercase code: for the code of a live transfer written in lowercase
\* or mixed case, the same document's fields as for the code as issued
C11_CaseInsensitive ==
    [][/\ \A d \in transfers' : d._id = toUpperCase(d._id)
       /\ (RetrieveStep /\ db # NULL)
            => client'.res = Some(RetrieveResponse(toUpperCase(client'.param), transfers))
       /\ \A r \in Requests :
             (/\ Succeeded(r) /\ Live(r)
              /\ RetrieveStep
              /\ toUpperCase(client'.param) = toUpperCase(CodeOf(r)))
             => /\ client'.res = Some(RetrieveResponse(CodeOf(r), transfers))
                /\ client'.res[1].json # NULL
                /\ client'.res[1].json[1].text = uploads[r].textData
      ]_vars

\* a live transfer was fetched by its code written in lowercase, and the
\* fetch returned its fields
C11_Witness ==
    \E r \in Requests :
        /\ Succeeded(r) /\ Live(r)
        /\ uploads[r].text = Some("hello")
        /\ client.kind = "retrieve"
        /\ client.param # CodeOf(r)
        /\ client.param \in { toHex(b) : b \in RandomBytes }
        /\ toUpperCase(client.param) = CodeOf(r)
        /\ client.res # NULL
        /\ client.res[1].json # NULL
        /\ client.res[1].json[1].text = "hello"

\* C12: once the database is connected, a fetch that the database answers is
\* a 404 exactly when the collection holds no document under the uppercase
\* :id (never issued, or removed since), and otherwise carries that
\* document's text, filename and file_id
C12_NotFoundIffAbsent ==
    [][(RetrieveStep /\ db # NULL) =>
          LET uniqueId == toUpperCase(client'.param)
              answer == client'.res[1]
          IN  /\ answer.status \in {200, 404}
              /\ answer.status = 404 <=> ~ \E d \in transfers : d._id = uniqueId
              /\ answer.status = 404 =>
                    answer = Send(404, "Error: Transfer ID not found.")
              /\ answer.status = 200 =>
                    \E d \in transfers :
                        /\ d._id = uniqueId
                        /\ answer.json # NULL
                        /\ answer.json[1].text = d.text
                        /\ answer.json[1].filename = d.filename
                        /\ (d.file_id = NULL => answer.json[1].file_id = NULL)
                        /\ (d.file_id # NULL =>
                              /\ answer.json[1].file_id # NULL
                              /\ NewObjectId(answer.json[1].file_id[1]) = d.file_id)
      ]_vars

\* the code of a transfer whose document has expired and been removed was
\* fetched and answered with 404
C12_Witness ==
    \E r \in Requests :
        /\ Succeeded(r) /\ Gone(r)
        /\ \A d \in transfers : d._id # CodeOf(r)
        /\ client.kind = "retrieve"
        /\ toUpperCase(client.param) = CodeOf(r)
        /\ client.res = Some(Send(404, "Error: Transfer ID not found."))

\* this step is the handler of GET /api/download/:file_id
DownloadStep ==
    /\ client.pc = "done"
    /\ client' # client
    /\ client'.kind = "download"

\* a read stream has been opened for the download in progress
StreamOpened(c) == c.pc # "done" \/ c.fileId # NULL

\* C13: once the database is connected, a download whose :file_id is no
\* ObjectId is answered with 400 by the handler itself, and no read stream
\* is ever opened for it
C13_MalformedIdRejected ==
    [][/\ (DownloadStep /\ db # NULL /\ NewObjectId(client'.param) = NULL)
            => /\ client'.res = Some(Send(400, "Error: Invalid file ID format."))
               /\ ~StreamOpened(client')
       /\ (client'.kind = "download" /\ NewObjectId(client'.param) = NULL)
            => /\ ~StreamOpened(client')
               /\ client'.sent = <<>>
      ]_vars

\* a :file_id of the right length that is not hexadecimal was answered 400
\* while GridFS holds a file
C13_Witness ==
    /\ client.kind = "download"
    /\ Len(client.param) = ObjectIdHexLen
    /\ NewObjectId(client.param) = NULL
    /\ client.res = Some(Send(400, "Error: Invalid file ID format."))
    /\ fsFiles # {}

\* the answer of line 192
NotFound404 == Send(404, "File not found in storage.")

\* C14: a download whose :file_id is an ObjectId that no file of the bucket
\* has is answered, when the stream looks the file up, with 404 and without
\* a byte of content; and no response that is a 404 has delivered content
C14_MissingBlobNotFound ==
    [][/\ (/\ client.kind = "download"
            /\ client.pc = "open"
            /\ client' # client
            /\ \A f \in fsFiles : f._id # client.fileId[1])
            => /\ client'.res = Some(NotFound404)
               /\ client'.sent = <<>>
               /\ client'.ended
       /\ (client'.kind = "download" /\ client'.res = Some(NotFound404))
            => client'.sent = <<>>
      ]_vars

\* a download by an ObjectId that was never handed out was answered 404
\* while GridFS holds a file under another id
C14_Witness ==
    /\ client.kind = "download"
    /\ client.fileId # NULL
    /\ client.fileId[1] > nextObjectId
    /\ client.res = Some(NotFound404)
    /\ fsFiles # {}

\* the answer of the guards of lines 84, 142 and 173
NotConnected == Send(500, "Database not connected")

\* C15: a rejected connect ends the process, after which no request is
\* handled; db and gridfsBucket are set together; and while db is not set
\* every upload, fetch and download is answered 500 by the guard, opens no
\* stream and leaves the collection and the bucket as they were
C15_NoHalfInitialized ==
    [][/\ connectState' = "rejected" => proc' = "exited"
       /\ (db' = NULL) <=> (gridfsBucket' = NULL)
       /\ proc = "exited" => (uploads' = uploads /\ client' = client)
       /\ db = NULL =>
            /\ storeVars' = storeVars
            /\ \A r \in Requests :
                  uploads'[r] # uploads[r] =>
                     uploads'[r] = [uploads[r] EXCEPT !.pc = "done",
                                                      !.res = Some(NotConnected)]
            /\ client' # client =>
                  /\ client'.res = Some(NotConnected)
                  /\ ~StreamOpened(client')
      ]_vars

\* an upload and a download were answered by the guard, then the connect
\* was rejected and the process ended
C15_Witness ==
    /\ connectState = "rejected"
    /\ proc = "exited"
    /\ uploads[1].res = Some(NotConnected)
    /\ client.kind = "download"
    /\ client.res = Some(NotConnected)

\* C16: once an upload has been answered with the storage error, the bucket
\* never has a files document under its id, no download step delivers bytes
\* under its id, and a download by its id that is answered is a 404 with no
\* content
C16_NoPartialBlobReadable ==
    [][\A r \in Requests :
          UploadFailed(r) =>
            /\ \A f \in fsFiles' : f._id # uploads[r].uploadId[1]
            /\ ~DeliversBytes(uploads[r].uploadId)
            /\ (/\ client'.kind = "download"
                /\ client'.fileId = uploads[r].uploadId
                /\ client'.res # NULL)
                => /\ client'.res = Some(NotFound404)
                   /\ client'.sent = <<>>
      ]_vars

\* an upload failed after some of its bytes had reached uploads.chunks, and
\* a download by its id was answered 404
C16_Witness ==
    \E r \in Requests :
        /\ UploadFailed(r)
        /\ \E ch \in fsChunks :
              ch.files_id = uploads[r].uploadId[1] /\ ch.data # <<>>
        /\ client.kind = "download"
        /\ client.fileId = uploads[r].uploadId
        /\ client.res = Some(NotFound404)

\* C17: a step that delivers a content byte of a download finds the
\* Content-Type and Content-Disposition of the file's document already set
\* on the response, and leaves them as they are
C17_HeadersBeforeBytes ==
    [][(client'.kind = "download" /\ client.kind = "download"
          /\ Len(client'.sent) > Len(client.sent))
        => /\ \E f \in fsFiles :
                 /\ f._id = client.fileId[1]
                 /\ client.headers =
                       Some([contentType        |-> f.contentType,
                             contentDisposition |-> ContentDisposition(f.filename)])
           /\ ~client.headersSent => Len(client.sent) = 0
           /\ client'.headers = client.headers
      ]_vars

\* the first of the two bytes of a.txt has been delivered, under its headers
C17_Witness ==
    /\ client.kind = "download"
    /\ client.pc = "streaming"
    /\ Len(client.sent) = 1
    /\ client.headers = Some([contentType |-> "text/plain",
                              contentDisposition |-> "attachment; filename=\"a.txt\""])
    /\ \E f \in fsFiles : f._id = client.fileId[1] /\ f.length = Len(FileA.buffer)

\* C18: once an upload with a file has been answered, its document was
\* inserted exactly if the bucket holds its file
C18_CreateAtomic ==
    \A r \in Requests :
        (uploads[r].pc = "done" /\ uploads[r].uploadId # NULL)
        => (Inserted(r) <=> \E f \in fsFiles : f._id = uploads[r].uploadId[1])

\* C19: an upload that has been answered is not answered again, and while a
\* download is in progress with its headers sent, no step sends a status on
\* it again or ends the process: the response is only ever ended
C19_OneResponse ==
    [][/\ \A r \in Requests :
             uploads[r].res # NULL => uploads'[r].res = uploads[r].res
       /\ (client.pc # "done" /\ client.headersSent /\ client' # client)
            => /\ client'.threw = NULL
               /\ proc' = proc
               /\ client'.pc = "done" => client'.ended
      ]_vars

====
